---- MODULE Spec2Model ----
(***************************************************************************)
(* Verification model of khs0808sky/personal-music-ai.                     *)
(*                                                                         *)
(*   SpecAgg   - the image emotion aggregator                              *)
(*               (music_generate_image_copy.py)                            *)
(*   SpecGraph - the text pipeline graph (music_generator_core.py)         *)
(*   SpecUI    - the three UI actions and the two tab handlers over the    *)
(*               process-wide AppState (gradio_app.py)                     *)
(*                                                                         *)
(* Numbers: every float of the program is represented in thousandths       *)
(* (0.7 is 700); a value that is a quotient is kept as an exact fraction   *)
(* [n, d] until the program rounds it.                                     *)
(***************************************************************************)
EXTENDS Integers, Sequences, FiniteSets, TLC

VARIABLES
    \* --- aggregator (SpecAgg) ---
    ranked,        \* the list returned by analyze_image_clip
    fp,            \* how the binary floats fall on exact rounding ties
    agg,           \* the state dict after analyze_emotion_from_image_node
    \* --- text pipeline graph (SpecGraph) ---
    gstate,        \* the GraphState dict threaded through the nodes
    pc,            \* the node the graph is about to run
    trace,         \* the nodes executed so far in this run
    \* --- process environment (SpecGraph, SpecUI) ---
    env,           \* os.environ as read by os.getenv
    have_replicate,\* _HAVE_REPLICATE: the replicate package was importable
    \* --- UI (SpecUI) ---
    app_state,     \* the global AppState instance
    emo_src,       \* identity of the input the cached EmotionResult was analysed from
    brief_src,     \* the emotion, and the identity of the input, the cached
                   \* MusicBrief was composed from
    last,          \* what the last handler invocation did and returned
    \* --- synthesizer (SpecSynth) ---
    syn,           \* one call of generate_with_replicate_strict in progress
    \* --- overlapping handler invocations (SpecRace) ---
    race,          \* the invocations of analyze_emotion_only in progress
    \* --- keyword prototype (SpecKeyword) ---
    gen            \* the MusicGenerator instance and its last result

vars == <<ranked, fp, agg, gstate, pc, trace, env, have_replicate, app_state, emo_src, brief_src, last, syn, race, gen>>

aggVars   == <<ranked, fp, agg>>
graphVars == <<gstate, pc, trace>>
uiVars    == <<app_state, emo_src, brief_src, last>>
envVars   == <<env, have_replicate>>
synVars   == <<syn>>
raceVars  == <<race>>
genVars   == <<gen>>

\* Python's None: for an optional object, an optional string and an optional
\* text (a text is a sequence of characters).
None     == [none |-> TRUE]
NoneStr  == "None"
NoneText == <<"None">>

\* The value of the variables a specification does not use.
AggOff   == ranked = <<>> /\ fp = [v |-> FALSE, a |-> FALSE, c |-> FALSE] /\ agg = None
GraphOff == gstate = None /\ pc = NoneStr /\ trace = <<>>
UIOff    == app_state = None /\ emo_src = None /\ brief_src = None /\ last = None
EnvOff   == env = None /\ have_replicate = FALSE
SynOff   == syn = None
RaceOff  == race = None
GenOff   == gen = None

Min(a, b) == IF a <= b THEN a ELSE b
Max(a, b) == IF a >= b THEN a ELSE b

(***************************************************************************)
(* Bounds                                                                  *)
(***************************************************************************)
MaxRanked == 3      \* longest ranked candidate list drawn
MaxTextLen == 2     \* longest story text typed
MaxPolls == 3       \* status polls counted (the polling loop itself is unbounded)
MaxWords == 2       \* keywords in a text given to the keyword prototype
MaxUpbeat == 2      \* entries appended to one instruments list

(***************************************************************************)
(* gradio_app.py : texts and their normalisation                           *)
(***************************************************************************)
\* A text is a sequence of characters; " " stands for any whitespace.
Chars == {" ", "a"}
IsSpace(c) == c = " "

Texts == UNION {[1..n -> Chars] : n \in 0..MaxTextLen}

\* str.split(): the maximal runs of non-whitespace characters.
RECURSIVE SplitFrom(_, _, _)
SplitFrom(s, i, cur) ==
    IF i > Len(s) THEN (IF cur = <<>> THEN <<>> ELSE <<cur>>)
    ELSE IF IsSpace(s[i])
         THEN (IF cur = <<>> THEN SplitFrom(s, i + 1, <<>>)
               ELSE <<cur>> \o SplitFrom(s, i + 1, <<>>))
         ELSE SplitFrom(s, i + 1, Append(cur, s[i]))
Split(s) == SplitFrom(s, 1, <<>>)

\* " ".join(words)
RECURSIVE Join(_)
Join(words) ==
    IF words = <<>> THEN <<>>
    ELSE IF Len(words) = 1 THEN words[1]
    ELSE words[1] \o <<" ">> \o Join(Tail(words))

\* str.strip()
RECURSIVE LStrip(_)
LStrip(s) == IF s # <<>> /\ IsSpace(s[1]) THEN LStrip(Tail(s)) ELSE s
RECURSIVE RStrip(_)
RStrip(s) == IF s # <<>> /\ IsSpace(s[Len(s)]) THEN RStrip(SubSeq(s, 1, Len(s) - 1)) ELSE s
Strip(s) == RStrip(LStrip(s))

_norm_raw(s) == IF s = NoneText THEN <<>> ELSE s

\* " ".join((s or "").split()).strip()
_norm(s) == Strip(Join(Split(IF s = NoneText THEN <<>> ELSE s)))

(***************************************************************************)
(* music_generate_image_copy.py : the emotion aggregator                   *)
(***************************************************************************)
CLIP_MOODS_calmHint == <<
    [label |-> "A happy and joyful photo",
     hints |-> [valence |-> 700,  arousal |-> 600, primary |-> "joy"]],
    [label |-> "A calm and peaceful photo",
     hints |-> [valence |-> 500,  arousal |-> 350, primary |-> "calm"]],
    [label |-> "An energetic and vibrant photo",
     hints |-> [valence |-> 500,  arousal |-> 750, primary |-> "energy"]],
    [label |-> "A mysterious and dreamy photo",
     hints |-> [valence |-> 200,  arousal |-> 500, primary |-> "mystery"]],
    [label |-> "A sad and melancholic photo",
     hints |-> [valence |-> -600, arousal |-> 450, primary |-> "sadness"]],
    [label |-> "A lonely and gloomy photo",
     hints |-> [valence |-> -500, arousal |-> 400, primary |-> "lonely"]] >>

CLIP_MOODS == <<
    [label |-> "A happy and joyful photo",
     hints |-> [valence |-> 700,  arousal |-> 600, primary |-> "joy"]],
    [label |-> "A calm and peaceful photo",
     hints |-> [valence |-> 400,  arousal |-> 350, primary |-> "calm"]],
    [label |-> "An energetic and vibrant photo",
     hints |-> [valence |-> 500,  arousal |-> 750, primary |-> "energy"]],
    [label |-> "A mysterious and dreamy photo",
     hints |-> [valence |-> 200,  arousal |-> 500, primary |-> "mystery"]],
    [label |-> "A sad and melancholic photo",
     hints |-> [valence |-> -600, arousal |-> 450, primary |-> "sadness"]],
    [label |-> "A lonely and gloomy photo",
     hints |-> [valence |-> -500, arousal |-> 400, primary |-> "lonely"]] >>

\* The Korean display strings are written as ASCII tags (ko:...).
KO_LABEL(label) ==
    CASE label = "A happy and joyful photo"       -> "ko:happy-joyful"
      [] label = "A calm and peaceful photo"      -> "ko:calm-peaceful"
      [] label = "An energetic and vibrant photo" -> "ko:energetic-vibrant"
      [] label = "A mysterious and dreamy photo"  -> "ko:mysterious-dreamy"
      [] label = "A sad and melancholic photo"    -> "ko:sad-melancholic"
      [] label = "A lonely and gloomy photo"      -> "ko:lonely-gloomy"
      [] OTHER -> label

KO_PRIMARY(primary) ==
    CASE primary = "joy"     -> "ko:joy"
      [] primary = "calm"    -> "ko:calm"
      [] primary = "energy"  -> "ko:energy"
      [] primary = "mystery" -> "ko:mystery"
      [] primary = "sadness" -> "ko:sadness"
      [] primary = "lonely"  -> "ko:lonely"
      [] OTHER -> primary

\* A fraction n/d of thousandths, d > 0.
Frac(n, d) == [n |-> n, d |-> d]

\* max(lo, min(hi, x)) on a fraction; lo and hi in thousandths.
ClampFrac(x, lo, hi) ==
    IF x.n > hi * x.d THEN Frac(hi, 1)
    ELSE IF x.n < lo * x.d THEN Frac(lo, 1)
    ELSE x

\* float(f"{x:.2f}"): the nearest hundredth, in thousandths.  On an exact
\* tie (x.xx5) the result depends on which side the binary float fell:
\* `up' selects it.
_r2(x, up) ==
    LET unit == 10 * x.d
        q    == x.n \div unit
        r    == x.n - q * unit
    IN  IF 2 * r > unit THEN 10 * (q + 1)
        ELSE IF 2 * r < unit THEN 10 * q
        ELSE IF up THEN 10 * (q + 1) ELSE 10 * q

\* int(round(p * 100)) for a score p in thousandths; round() is half-to-even.
_pct(p) ==
    LET q == p \div 10
        r == p - q * 10
    IN  IF r > 5 THEN q + 1
        ELSE IF r < 5 THEN q
        ELSE IF q % 2 = 1 THEN q + 1 ELSE q

_make_korean_reason_lastCandidate(rk, primary, valence, arousal, confidence, f) ==
    LET top == rk[1] IN
    IF Len(rk) >= 2
    THEN [template   |-> "two",
          top_ko     |-> KO_LABEL(top.label),    top_pct |-> _pct(top.score),
          sec_ko     |-> KO_LABEL(rk[Len(rk)].label),  sec_pct |-> _pct(rk[Len(rk)].score),
          primary_ko |-> KO_PRIMARY(primary),
          valence    |-> _r2(valence, f.v), arousal |-> _r2(arousal, f.a),
          confidence |-> _r2(confidence, f.c)]
    ELSE [template   |-> "one",
          top_ko     |-> KO_LABEL(top.label),    top_pct |-> _pct(top.score),
          sec_ko     |-> NoneStr,                  sec_pct |-> 0,
          primary_ko |-> KO_PRIMARY(primary),
          valence    |-> _r2(valence, f.v), arousal |-> _r2(arousal, f.a),
          confidence |-> _r2(confidence, f.c)]

\* The explanation sentence, kept as the template used and the values
\* substituted into it.
_make_korean_reason(rk, primary, valence, arousal, confidence, f) ==
    LET top == rk[1] IN
    IF Len(rk) >= 2
    THEN [template   |-> "two",
          top_ko     |-> KO_LABEL(top.label),    top_pct |-> _pct(top.score),
          sec_ko     |-> KO_LABEL(rk[2].label),  sec_pct |-> _pct(rk[2].score),
          primary_ko |-> KO_PRIMARY(primary),
          valence    |-> _r2(valence, f.v), arousal |-> _r2(arousal, f.a),
          confidence |-> _r2(confidence, f.c)]
    ELSE [template   |-> "one",
          top_ko     |-> KO_LABEL(top.label),    top_pct |-> _pct(top.score),
          sec_ko     |-> NoneStr,                  sec_pct |-> 0,
          primary_ko |-> KO_PRIMARY(primary),
          valence    |-> _r2(valence, f.v), arousal |-> _r2(arousal, f.a),
          confidence |-> _r2(confidence, f.c)]

BlendWeight_noRenorm(w1, w2) == 1000

\* s = (w1 + w2) or 1.0
BlendWeight(w1, w2) == IF w1 + w2 = 0 THEN 1000 ELSE w1 + w2

Confidence_noUpper(w) == Max(500, w)

\* min(0.9, max(0.5, w))
Confidence(w) == Min(900, Max(500, w))

\* The values computed by lines 187-202, before rounding.
AggregateRaw(rk) ==
    LET top == rk[1] IN
    IF Len(rk) >= 2
    THEN LET second == rk[2]
             w1 == top.score
             w2 == second.score
             s  == BlendWeight(w1, w2)
         IN  [valence    |-> Frac(top.hints.valence * w1 + second.hints.valence * w2, s),
              arousal    |-> Frac(top.hints.arousal * w1 + second.hints.arousal * w2, s),
              primary    |-> top.hints.primary,
              confidence |-> Frac(Confidence(w1), 1)]
    ELSE [valence    |-> Frac(top.hints.valence, 1),
          arousal    |-> Frac(top.hints.arousal, 1),
          primary    |-> top.hints.primary,
          confidence |-> Frac(Confidence(top.score), 1)]

analyze_emotion_from_image_node_tieToSecond(rk, f) ==
    LET raw == AggregateRaw(rk) IN
    [primary    |-> IF Len(rk) >= 2 /\ rk[2].score = rk[1].score
                    THEN rk[2].hints.primary ELSE raw.primary,
     valence    |-> _r2(ClampFrac(raw.valence, -1000, 1000), f.v),
     arousal    |-> _r2(ClampFrac(raw.arousal, 0, 1000), f.a),
     confidence |-> _r2(ClampFrac(raw.confidence, 0, 1000), f.c),
     reasons    |-> _make_korean_reason(rk, raw.primary, raw.valence,
                                        raw.arousal, raw.confidence, f)]

\* state["emotion"] after analyze_emotion_from_image_node.
analyze_emotion_from_image_node(rk, f) ==
    LET raw == AggregateRaw(rk) IN
    [primary    |-> raw.primary,
     valence    |-> _r2(ClampFrac(raw.valence, -1000, 1000), f.v),
     arousal    |-> _r2(ClampFrac(raw.arousal, 0, 1000), f.a),
     confidence |-> _r2(ClampFrac(raw.confidence, 0, 1000), f.c),
     reasons    |-> _make_korean_reason(rk, raw.primary, raw.valence,
                                        raw.arousal, raw.confidence, f)]

(***************************************************************************)
(* music_generator_core.py : schemas, nodes, synthesizer, graph            *)
(***************************************************************************)
\* An exception raised by a call.
Error(kind) == [error |-> kind]
IsError(x)  == "error" \in DOMAIN x

EmotionResultValid_arousalOnly(e) == e.arousal \in 0..1000

\* EmotionResult: Valence = Field(ge=-1, le=1), Arousal = Field(ge=0, le=1);
\* constructing the model from values outside the ranges raises.
EmotionResultValid(e) ==
    /\ e.valence \in -1000..1000
    /\ e.arousal \in 0..1000
    /\ e.confidence \in 0..1000


\* MusicBrief: BPM = Field(ge=50, le=140), DurSec = Field(ge=120, le=180).
MusicBriefValid(b) ==
    /\ b.bpm \in 50..140
    /\ b.duration_sec \in 120..180

\* What the hosted model answers to the emotion prompt: a JSON object, or
\* the call fails.
LLMEmotions == {
    [primary |-> "calm", valence |-> 312, arousal |-> 400, confidence |-> 700,
     reasons |-> [template |-> "llm", text |-> "r1"]],
    [primary |-> "anxious", valence |-> -600, arousal |-> 800, confidence |-> 850,
     reasons |-> [template |-> "llm", text |-> "r2"]],
    [primary |-> "joy", valence |-> 1500, arousal |-> 600, confidence |-> 900,
     reasons |-> [template |-> "llm", text |-> "r3"]] }
\* get_llm builds ChatOpenAI from OPENAI_API_KEY of the environment: without
\* the key the client cannot be built and the node raises.
LLMEmotionOutcomes ==
    IF env.OPENAI_API_KEY # NoneStr /\ env.OPENAI_API_KEY # ""
    THEN LLMEmotions \cup {Error("api")}
    ELSE {Error("OpenAIError")}

\* What the hosted model answers to the brief prompt.
UpstreamDurations == {90, 120, 150, 180, 400}
UpstreamBrief(d) ==
    [mood |-> "calm", bpm |-> 80, key |-> "C major", duration_sec |-> d,
     instruments |-> <<"warm piano", "soft pad">>,
     style_tags  |-> <<"calming", "warm", "regulate:soothe">>,
     prompt |-> "gentle warm piano over a soft pad"]
LLMBriefOutcomes ==
    IF env.OPENAI_API_KEY # NoneStr /\ env.OPENAI_API_KEY # ""
    THEN {UpstreamBrief(d) : d \in UpstreamDurations} \cup {Error("api")}
    ELSE {Error("OpenAIError")}

\* llm.with_structured_output(Schema).invoke(...): the answer is parsed into
\* the schema class, which validates its field constraints.
StructuredEmotion(out) ==
    IF IsError(out) THEN out
    ELSE IF EmotionResultValid(out) THEN out ELSE Error("ValidationError")

StructuredBrief(out) ==
    IF IsError(out) THEN out
    ELSE IF MusicBriefValid(out) THEN out ELSE Error("ValidationError")

\* state["emotion"] after analyze_emotion_node, or the exception it raises.
analyze_emotion_node(out) == StructuredEmotion(out)


\* lines 133-136
ClampDuration(b) ==
    IF b.duration_sec < 120 THEN [b EXCEPT !.duration_sec = 120]
    ELSE IF b.duration_sec > 180 THEN [b EXCEPT !.duration_sec = 180]
    ELSE b

\* state["brief"] after compose_brief_node, or the exception it raises.
compose_brief_node(out) ==
    LET brief == StructuredBrief(out) IN
    IF IsError(brief) THEN brief ELSE ClampDuration(brief)

\* os.getenv: a variable is a string or absent (NoneStr).
Envs == [OPENAI_API_KEY      : {NoneStr, "sk-key"},
         REPLICATE_API_TOKEN : {NoneStr, "r8-token"},
         USE_REPLICATE       : {NoneStr, "0", "1"}]

EnvSet_always(e, name) == TRUE

\* bool(os.getenv(name))
EnvSet(e, name) == e[name] # NoneStr /\ e[name] # ""

UseReplicate_anyValue(e) == e.USE_REPLICATE # NoneStr

\* os.getenv("USE_REPLICATE", "0") == "1"
UseReplicate(e) == (IF e.USE_REPLICATE = NoneStr THEN "0" ELSE e.USE_REPLICATE) = "1"

\* How the generation job ends: _replicate_run returns an output that
\* _save_first_output_to_file can save, the job fails, or the output has an
\* unexpected shape.
SynthOutcomes == {"succeeded", "failed", "unexpected_output"}
SavedPath == "outputs/stableaudio.wav"

DurationInRange_upperOnly(duration) == duration <= 180

\* 120 <= int(duration) <= 180
DurationInRange(duration) == 120 <= duration /\ duration <= 180

\* The returned path, or the exception raised.
generate_with_replicate_strict(prompt, duration, e, outcome) ==
    IF ~EnvSet(e, "REPLICATE_API_TOKEN") THEN Error("AssertionError: token")
    ELSE IF ~DurationInRange(duration) THEN Error("AssertionError: duration")
    ELSE IF outcome = "succeeded" THEN [path |-> SavedPath]
    ELSE IF outcome = "failed" THEN Error("Replicate failed")
    ELSE Error("Unexpected replicate output type")

should_generate_noToken(st, e) ==
    IF UseReplicate(e) \/ st.force_generate = "True" THEN "go" ELSE "skip"

should_generate(st, e) ==
    LET use_flag  == UseReplicate(e) \/ st.force_generate = "True"
        has_token == EnvSet(e, "REPLICATE_API_TOKEN")
    IN  IF use_flag /\ has_token THEN "go" ELSE "skip"

(***************************************************************************)
(* SpecGraph: one run of graph.invoke(state) of the text pipeline          *)
(***************************************************************************)
\* The stories the callers hand to the graph: not empty once normalised.
Stories == {t \in Texts : _norm(t) # <<>>}

\* The dict handed to graph.invoke: user_text, and force_generate when the
\* caller sets it; "absent" is a missing key.
GraphInput(text, force) ==
    [user_text |-> text, force_generate |-> force,
     emotion |-> None, brief |-> None,
     audio_path |-> NoneStr, provider_used |-> NoneStr, meta |-> None]

InitGraph ==
    /\ \E text \in Stories, force \in {"absent", "True", "False"} :
            gstate = GraphInput(text, force)
    /\ pc = "analyze_emotion"        \* add_edge(START, "analyze_emotion")
    /\ trace = <<>>
    /\ env \in Envs
    /\ have_replicate \in BOOLEAN
    /\ AggOff /\ UIOff /\ SynOff /\ RaceOff /\ GenOff

\* A node ran on what the outside answered.
Ran(node, out) == Append(trace, [node |-> node, out |-> out])

GraphAnalyzeEmotion ==
    /\ pc = "analyze_emotion"
    /\ \E out \in LLMEmotionOutcomes :
         LET emo == analyze_emotion_node(out) IN
         /\ trace' = Ran("analyze_emotion", out)
         /\ IF IsError(emo)
            THEN pc' = "raised" /\ UNCHANGED gstate
            ELSE /\ gstate' = [gstate EXCEPT !.emotion = emo]
                 /\ pc' = "compose_brief"
    /\ UNCHANGED <<aggVars, envVars, uiVars, synVars, raceVars, genVars>>

\* compose_brief_node, then the conditional edge should_generate.
GraphComposeBrief ==
    /\ pc = "compose_brief"
    /\ \E out \in LLMBriefOutcomes :
         LET brief == compose_brief_node(out) IN
         /\ trace' = Ran("compose_brief", out)
         /\ IF IsError(brief)
            THEN pc' = "raised" /\ UNCHANGED gstate
            ELSE /\ gstate' = [gstate EXCEPT !.brief = brief]
                 /\ pc' = IF should_generate(gstate', env) = "go"
                          THEN "generate_music" ELSE "mark_skipped"
    /\ UNCHANGED <<aggVars, envVars, uiVars, synVars, raceVars, genVars>>

GraphGenerateMusic ==
    /\ pc = "generate_music"
    /\ \E out \in SynthOutcomes :
         LET brief == gstate.brief
             res   == generate_with_replicate_strict(brief.prompt, brief.duration_sec, env, out)
             prov  == IF have_replicate THEN "replicate" ELSE "rest"
         IN
         /\ trace' = Ran("generate_music", [outcome |-> out])
         /\ IF IsError(res)
            THEN pc' = "raised" /\ UNCHANGED gstate
            ELSE /\ gstate' = [gstate EXCEPT
                        !.audio_path = res.path,
                        !.provider_used = prov,
                        !.meta = [emotion |-> gstate.emotion, brief |-> gstate.brief,
                                  provider |-> prov, path |-> res.path]]
                 /\ pc' = "END"
    /\ UNCHANGED <<aggVars, envVars, uiVars, synVars, raceVars, genVars>>

GraphMarkSkipped_noProvider ==
    /\ pc = "mark_skipped"
    /\ trace' = Ran("mark_skipped", None)
    /\ pc' = "END"
    /\ UNCHANGED <<gstate, aggVars, envVars, uiVars, synVars, raceVars, genVars>>

GraphMarkSkipped ==
    /\ pc = "mark_skipped"
    /\ trace' = Ran("mark_skipped", None)
    /\ gstate' = [gstate EXCEPT !.provider_used = "skipped"]
    /\ pc' = "END"
    /\ UNCHANGED <<aggVars, envVars, uiVars, synVars, raceVars, genVars>>

NextGraph == GraphAnalyzeEmotion \/ GraphComposeBrief \/ GraphGenerateMusic \/ GraphMarkSkipped

SpecGraph == InitGraph /\ [][NextGraph]_vars

(***************************************************************************)
(* SpecAgg: the aggregator applied to ranked lists                         *)
(***************************************************************************)
\* Scores (softmax probabilities) drawn, in thousandths.
Scores == {0, 100, 150, 300, 700, 734, 800, 990}

Candidate(m, sc) == [label |-> CLIP_MOODS[m].label, score |-> sc,
                     hints |-> CLIP_MOODS[m].hints]

\* analyze_image_clip: one candidate per mood sentence, sorted by score,
\* descending; the scores are probabilities of one softmax.
RECURSIVE SumScores(_, _)
SumScores(sc, n) == IF n = 0 THEN 0 ELSE sc[n] + SumScores(sc, n - 1)

MoodOrders(n) == {m \in [1..n -> 1..Len(CLIP_MOODS)] :
                    \A i, j \in 1..n : i # j => m[i] # m[j]}
ScoreLists(n) == {sc \in [1..n -> Scores] :
                    /\ \A i \in 1..(n - 1) : sc[i] >= sc[i + 1]
                    /\ SumScores(sc, n) <= 1000}
RankedLists == UNION {{[i \in 1..n |-> Candidate(m[i], sc[i])] :
                           m \in MoodOrders(n), sc \in ScoreLists(n)} :
                      n \in 1..MaxRanked}

FloatTies == [v : BOOLEAN, a : BOOLEAN, c : BOOLEAN]


InitAgg ==
    /\ ranked \in RankedLists
    /\ fp \in FloatTies
    /\ agg = None
    /\ GraphOff /\ UIOff /\ EnvOff /\ SynOff /\ RaceOff /\ GenOff

\* analyze_emotion_from_image_node runs on the ranked list: `locals' are the
\* values of lines 187-202, `emotion' is state["emotion"].
AggAnalyze ==
    /\ agg = None
    /\ agg' = [locals  |-> AggregateRaw(ranked),
               emotion |-> analyze_emotion_from_image_node(ranked, fp)]
    /\ UNCHANGED <<ranked, fp, graphVars, envVars, uiVars, synVars, raceVars, genVars>>

NextAgg == AggAnalyze

SpecAgg == InitAgg /\ [][NextAgg]_vars

(***************************************************************************)
(* gradio_app.py : AppState, the three actions, the two tab handlers       *)
(***************************************************************************)
\* AppState.__init__
AppStateInit ==
    [emotion_result |-> None, music_brief |-> None,
     user_story |-> NoneText, image_path |-> NoneStr, current_mode |-> "text"]

\* The cache as a handler sees it on entry, with the record of where its
\* contents came from: app is app_state, es the input the emotion was
\* analysed from, bs the emotion and input the brief was composed from,
\* cleared what a clear() of this invocation discarded.
Cache == [app |-> app_state, es |-> emo_src, bs |-> brief_src, cleared |-> "no"]

clear_keepsIdentity(c) ==
    [app |-> [c.app EXCEPT !.emotion_result = None, !.music_brief = None],
     es |-> None, bs |-> None,
     cleared |-> IF c.app.music_brief # None /\ c.app.emotion_result # None
                 THEN "emotion+brief"
                 ELSE IF c.app.emotion_result # None THEN "emotion"
                 ELSE IF c.app.music_brief # None THEN "brief"
                 ELSE "nothing"]

\* AppState.clear
clear(c) ==
    [app |-> AppStateInit, es |-> None, bs |-> None,
     cleared |-> IF c.app.music_brief # None /\ c.app.emotion_result # None
                 THEN "emotion+brief"
                 ELSE IF c.app.emotion_result # None THEN "emotion"
                 ELSE IF c.app.music_brief # None THEN "brief"
                 ELSE "nothing"]

\* AppState.set_story
set_story(c, s) ==
    [c EXCEPT !.app.user_story = _norm(s), !.app.current_mode = "text"]

\* AppState.set_image
set_image(c, img) ==
    [c EXCEPT !.app.image_path = img, !.app.current_mode = "image"]

has_emotion_analysis_rawCompare(st, current_story, current_image) ==
    IF st.current_mode = "text"
    THEN st.emotion_result # None /\ st.user_story = current_story
    ELSE st.emotion_result # None /\ st.image_path = current_image

\* AppState.has_emotion_analysis
has_emotion_analysis(st, current_story, current_image) ==
    IF st.current_mode = "text"
    THEN st.emotion_result # None /\ st.user_story = _norm(current_story)
    ELSE st.emotion_result # None /\ st.image_path = current_image

has_music_brief_rawCompare(st, current_story, current_image) ==
    IF st.current_mode = "text"
    THEN st.music_brief # None /\ st.user_story = current_story
    ELSE st.music_brief # None /\ st.image_path = current_image

\* AppState.has_music_brief
has_music_brief(st, current_story, current_image) ==
    IF st.current_mode = "text"
    THEN st.music_brief # None /\ st.user_story = _norm(current_story)
    ELSE st.music_brief # None /\ st.image_path = current_image

\* app_state.emotion_result = emo, analysed from src
StoreEmotion(c, emo, src) == [c EXCEPT !.app.emotion_result = emo, !.es = src]
\* app_state.music_brief = brief, composed from the emotion emo for src
StoreBrief(c, brief, emo, src) ==
    [c EXCEPT !.app.music_brief = brief, !.bs = [emotion |-> emo, input |-> src]]

\* The identity of an input: the normalised story, or the image path.
FromText(s)    == [text |-> _norm(s)]
FromImage(img) == [image |-> img]

\* The image files the user can upload.
Images == {"img1.png", "img2.png"}

\* What analyze_image_clip returns for an uploaded image (the six moods,
\* ranked), or it raises FileNotFoundError.
ClipSamples == {
    <<Candidate(1, 800), Candidate(2, 150), Candidate(3, 0)>>,
    <<Candidate(5, 734), Candidate(6, 150), Candidate(4, 100)>> }

\* state["emotion"] after analyze_emotion_from_image_node on an uploaded
\* image, or the exception it raises.
ImageEmotionOutcomes ==
    {analyze_emotion_from_image_node(rk, f) : rk \in ClipSamples, f \in FloatTies}
    \cup {Error("FileNotFoundError")}

\* _rename_generated_file: the saved file moved to its titled name.
RenamedPath == "outputs/calm - C major - 80bpm - regulate_soothe.wav"

\* What the handler did: the calls it made, and the tuple it returned
\* (emotion_md and brief_md are the objects rendered by md_emotion and
\* md_brief, None when the output shows no result).
Ret(action, user_story, image_input, status, emo, brief, audio, calls) ==
    [action |-> action, user_story |-> user_story, image_input |-> image_input,
     status |-> status, emotion_md |-> emo, brief_md |-> brief,
     audio |-> audio, calls |-> calls, cleared |-> "no", exc |-> NoneStr]

\* The classes caught by `except Exception'.
IsException_runtimeOnly(kind) ==
    kind \in {"api", "OpenAIError", "Replicate failed", "Unexpected replicate output type"}

IsException(kind) ==
    kind \in {"api", "OpenAIError", "ValidationError", "FileNotFoundError",
              "AssertionError: token", "AssertionError: duration",
              "Replicate failed", "Unexpected replicate output type", "TypeError"}

\* except Exception as e: return "...", "...", None, f"... {str(e)}": the
\* tuple returned when err was raised inside the try block; an exception the
\* clause does not catch leaves the handler.
RetError(action, user_story, image_input, err, calls) ==
    [Ret(action, user_story, image_input,
         IF IsException(err.error) THEN "error" ELSE "propagated",
         None, None, NoneStr, calls)
     EXCEPT !.exc = err.error]

Return_resetOnEmpty(c, ret) ==
    /\ app_state' = IF ret.status = "empty" THEN AppStateInit ELSE c.app
    /\ emo_src' = c.es
    /\ brief_src' = c.bs
    /\ last' = [ret EXCEPT !.cleared = c.cleared]
    /\ UNCHANGED <<aggVars, graphVars, envVars, synVars, raceVars, genVars>>

Return(c, ret) ==
    /\ app_state' = c.app
    /\ emo_src' = c.es
    /\ brief_src' = c.bs
    /\ last' = [ret EXCEPT !.cleared = c.cleared]
    /\ UNCHANGED <<aggVars, graphVars, envVars, synVars, raceVars, genVars>>

CallEmotionImage(img)  == [fn |-> "emotion", image |-> img]
CallEmotionText(s)     == [fn |-> "emotion", text |-> s]
CallCompose(emo)       == [fn |-> "compose", emotion |-> emo]
CallSynth(brief)       == [fn |-> "synth", prompt |-> brief.prompt,
                           duration |-> brief.duration_sec]

\* if app_state.image_path != image_input: clear(); set_image(image_input)
EnterImage_noClear(c, image_input) ==
    IF c.app.image_path # image_input THEN set_image(c, image_input) ELSE c

EnterImage(c, image_input) ==
    IF c.app.image_path # image_input THEN set_image(clear(c), image_input) ELSE c

EnterText_noClear(c, user_story) ==
    IF c.app.user_story # _norm(user_story) THEN set_story(c, user_story) ELSE c

\* if app_state.user_story != _norm(user_story): clear(); set_story(user_story)
EnterText(c, user_story) ==
    IF c.app.user_story # _norm(user_story) THEN set_story(clear(c), user_story) ELSE c

analyze_emotion_only(user_story, image_input) ==
    LET R(c, status, emo, calls) ==
            Return(c, Ret("analyze_emotion_only", user_story, image_input,
                          status, emo, None, NoneStr, calls))
    IN
    IF image_input # NoneStr
    THEN LET c1 == EnterImage(Cache, image_input) IN
         IF has_emotion_analysis(c1.app, NoneText, image_input)
         THEN R(c1, "reuse", c1.app.emotion_result, <<>>)
         ELSE \E rk \in ImageEmotionOutcomes :
                LET calls == <<CallEmotionImage(image_input)>> IN
                IF IsError(rk)
                THEN Return(c1, RetError("analyze_emotion_only", user_story, image_input, rk, calls))
                ELSE LET emo == rk IN
                     R(StoreEmotion(c1, emo, FromImage(image_input)), "done", emo, calls)
    ELSE IF _norm(user_story) = <<>>
    THEN R(Cache, "empty", None, <<>>)
    ELSE LET c1 == EnterText(Cache, user_story) IN
         IF has_emotion_analysis(c1.app, user_story, NoneStr)
         THEN R(c1, "reuse", c1.app.emotion_result, <<>>)
         ELSE \E out \in LLMEmotionOutcomes :
                LET calls == <<CallEmotionText(user_story)>>
                    emo   == analyze_emotion_node(out)
                IN  IF IsError(emo)
                    THEN Return(c1, RetError("analyze_emotion_only", user_story, image_input, emo, calls))
                    ELSE R(StoreEmotion(c1, emo, FromText(user_story)), "done", emo, calls)

\* The second half of generate_music_brief_only, common to both modes: the
\* emotion is in c (reused or just analysed); compose, store, return.
BriefOnlyCompose(c, user_story, image_input, src, calls) ==
    LET R(cc, status, emo, brief, cl) ==
            Return(cc, Ret("generate_music_brief_only", user_story, image_input,
                           status, emo, brief, NoneStr, cl))
        emo == c.app.emotion_result
        cl  == Append(calls, CallCompose(emo))
    IN  \E out \in LLMBriefOutcomes :
            LET brief == compose_brief_node(out) IN
            IF IsError(brief)
            THEN Return(c, RetError("generate_music_brief_only", user_story, image_input, brief, cl))
            ELSE R(StoreBrief(c, brief, emo, src), "done", emo, brief, cl)

generate_music_brief_only(user_story, image_input) ==
    LET R(c, status, calls) ==
            Return(c, Ret("generate_music_brief_only", user_story, image_input,
                          status, None, None, NoneStr, calls))
    IN
    IF image_input # NoneStr
    THEN LET c1 == EnterImage(Cache, image_input) IN
         IF has_emotion_analysis(c1.app, NoneText, image_input)
         THEN BriefOnlyCompose(c1, user_story, image_input, FromImage(image_input), <<>>)
         ELSE \E rk \in ImageEmotionOutcomes :
                LET calls == <<CallEmotionImage(image_input)>> IN
                IF IsError(rk)
                THEN Return(c1, RetError("generate_music_brief_only", user_story, image_input, rk, calls))
                ELSE BriefOnlyCompose(
                        StoreEmotion(c1, rk,
                                     FromImage(image_input)),
                        user_story, image_input, FromImage(image_input), calls)
    ELSE IF _norm(user_story) = <<>>
    THEN R(Cache, "empty", <<>>)
    ELSE LET c1 == EnterText(Cache, user_story) IN
         IF has_emotion_analysis(c1.app, user_story, NoneStr)
         THEN BriefOnlyCompose(c1, user_story, image_input, FromText(user_story), <<>>)
         ELSE \E out \in LLMEmotionOutcomes :
                LET calls == <<CallEmotionText(user_story)>>
                    emo   == analyze_emotion_node(out)
                IN  IF IsError(emo)
                    THEN Return(c1, RetError("generate_music_brief_only", user_story, image_input, emo, calls))
                    ELSE BriefOnlyCompose(StoreEmotion(c1, emo, FromText(user_story)),
                                          user_story, image_input, FromText(user_story), calls)

FullSynthesize_retryOnFailure(c, user_story, image_input, status, calls) ==
    LET brief == c.app.music_brief
        cl    == Append(calls, CallSynth(brief))
    IN  \E out \in SynthOutcomes :
            LET res == generate_with_replicate_strict(brief.prompt, brief.duration_sec, env, out) IN
            IF IsError(res)
            THEN Return(c, RetError("generate_full_music", user_story, image_input, res,
                                    Append(cl, CallSynth(brief))))
            ELSE Return(c, Ret("generate_full_music", user_story, image_input,
                               status, c.app.emotion_result, brief, RenamedPath, cl))

\* generate_with_replicate_strict on the cached brief, then
\* _rename_generated_file and the outputs built from the cache.
FullSynthesize(c, user_story, image_input, status, calls) ==
    LET R(st, emo, brief, audio, cl) ==
            Return(c, Ret("generate_full_music", user_story, image_input,
                          st, emo, brief, audio, cl))
        brief == c.app.music_brief
        cl    == Append(calls, CallSynth(brief))
    IN  \E out \in SynthOutcomes :
            LET res == generate_with_replicate_strict(brief.prompt, brief.duration_sec, env, out) IN
            IF IsError(res)
            THEN Return(c, RetError("generate_full_music", user_story, image_input, res, cl))
            ELSE R(status, c.app.emotion_result, brief, RenamedPath, cl)

\* Lines 337-361: synthesis is off; analyse and compose what is missing.
FullSkipSynthesis(c1, user_story, image_input) ==
    LET R(c, st, emo, brief, cl) ==
            Return(c, Ret("generate_full_music", user_story, image_input,
                          st, emo, brief, NoneStr, cl))
        image_mode == c1.app.current_mode = "image"
        src        == IF image_mode THEN FromImage(image_input) ELSE FromText(user_story)
        Has(has(_, _, _), c) ==
            IF image_mode THEN has(c.app, NoneText, image_input)
                          ELSE has(c.app, user_story, NoneStr)
        Finish(c, cl) ==
            R(c, "synth_skipped", c.app.emotion_result, c.app.music_brief, cl)
        Brief(c, cl) ==
            IF Has(has_music_brief, c) THEN Finish(c, cl)
            ELSE \E out \in LLMBriefOutcomes :
                    LET brief == compose_brief_node(out)
                        cl2   == Append(cl, CallCompose(c.app.emotion_result))
                    IN  IF IsError(brief)
                        THEN Return(c, RetError("generate_full_music", user_story, image_input, brief, cl2))
                        ELSE Finish(StoreBrief(c, brief, c.app.emotion_result, src), cl2)
    IN
    IF Has(has_emotion_analysis, c1) THEN Brief(c1, <<>>)
    ELSE IF image_mode
    THEN \E rk \in ImageEmotionOutcomes :
            LET cl == <<CallEmotionImage(image_input)>> IN
            IF IsError(rk)
            THEN Return(c1, RetError("generate_full_music", user_story, image_input, rk, cl))
            ELSE Brief(StoreEmotion(c1, rk, src), cl)
    ELSE \E out \in LLMEmotionOutcomes :
            LET cl  == <<CallEmotionText(user_story)>>
                emo == analyze_emotion_node(out)
            IN  IF IsError(emo)
                THEN Return(c1, RetError("generate_full_music", user_story, image_input, emo, cl))
                ELSE Brief(StoreEmotion(c1, emo, src), cl)

\* Lines 374-389: the emotion is cached, the brief is not.
FullComposeThenSynthesize(c1, user_story, image_input) ==
    LET emo == c1.app.emotion_result
        cl  == <<CallCompose(emo)>>
        src == IF c1.app.current_mode = "image" THEN FromImage(image_input)
                                                ELSE FromText(user_story)
    IN  \E out \in LLMBriefOutcomes :
            LET brief == compose_brief_node(out) IN
            IF IsError(brief)
            THEN Return(c1, RetError("generate_full_music", user_story, image_input, brief, cl))
            ELSE FullSynthesize(StoreBrief(c1, brief, emo, src), user_story, image_input,
                                "reuse_emotion", cl)

\* Lines 393-401: image_graph.invoke, store, then synthesize.
FullOneShotImage(c1, user_story, image_input) ==
    LET Err(e, cl) == Return(c1, RetError("generate_full_music", user_story, image_input, e, cl))
        src == FromImage(image_input)
    IN  \E rk \in ImageEmotionOutcomes :
            LET cl1 == <<CallEmotionImage(image_input)>> IN
            IF IsError(rk) THEN Err(rk, cl1)
            ELSE LET emo == rk
                     cl2 == Append(cl1, CallCompose(emo))
                 IN  \E out \in LLMBriefOutcomes :
                        LET brief == compose_brief_node(out) IN
                        IF IsError(brief) THEN Err(brief, cl2)
                        ELSE FullSynthesize(
                                StoreBrief(StoreEmotion(c1, emo, src), brief, emo, src),
                                user_story, image_input, "oneshot", cl2)

\* Lines 402-410: graph.invoke with force_generate, then store and rename.
FullOneShotText(c1, user_story, image_input) ==
    LET R(c, st, emo, brief, audio, cl) ==
            Return(c, Ret("generate_full_music", user_story, image_input,
                          st, emo, brief, audio, cl))
        Err(c, e, cl) == Return(c, RetError("generate_full_music", user_story, image_input, e, cl))
        src == FromText(user_story)
        st0 == GraphInput(user_story, "True")
    IN  \E oe \in LLMEmotionOutcomes :
            LET emo == analyze_emotion_node(oe)
                cl1 == <<CallEmotionText(user_story)>>
            IN
            IF IsError(emo) THEN Err(c1, emo, cl1)
            ELSE \E ob \in LLMBriefOutcomes :
                    LET brief  == compose_brief_node(ob)
                        cl2    == Append(cl1, CallCompose(emo))
                        stored == StoreBrief(StoreEmotion(c1, emo, src), brief, emo, src)
                    IN
                    IF IsError(brief) THEN Err(c1, brief, cl2)
                    ELSE IF should_generate(st0, env) = "go"
                    THEN \E os \in SynthOutcomes :
                            LET res == generate_with_replicate_strict(
                                           brief.prompt, brief.duration_sec, env, os)
                                cl3 == Append(cl2, CallSynth(brief))
                            IN  IF IsError(res) THEN Err(c1, res, cl3)
                                ELSE R(stored, "oneshot", emo, brief, RenamedPath, cl3)
                    \* mark_skipped: final has no audio_path and the rename raises
                    ELSE Err(stored, Error("TypeError"), cl2)

generate_full_music(user_story, image_input) ==
    LET R(c, st) == Return(c, Ret("generate_full_music", user_story, image_input,
                                  st, None, None, NoneStr, <<>>))
    IN
    IF image_input = NoneStr /\ _norm(user_story) = <<>>
    THEN R(Cache, "empty")
    ELSE
    LET c1 == IF image_input # NoneStr THEN EnterImage(Cache, image_input)
                                      ELSE EnterText(Cache, user_story)
        openai_ok == EnvSet(env, "OPENAI_API_KEY")
        repl_ok   == EnvSet(env, "REPLICATE_API_TOKEN")
        use_repl  == UseReplicate(env)
        has_e     == has_emotion_analysis(c1.app, user_story, image_input)
        has_b     == has_music_brief(c1.app, user_story, image_input)
    IN
    IF ~openai_ok THEN R(c1, "no_openai_key")
    ELSE IF ~(repl_ok /\ use_repl) THEN FullSkipSynthesis(c1, user_story, image_input)
    ELSE IF has_e /\ has_b
         THEN FullSynthesize(c1, user_story, image_input, "reuse_all", <<>>)
    ELSE IF has_e /\ ~has_b
         THEN FullComposeThenSynthesize(c1, user_story, image_input)
    ELSE IF c1.app.current_mode = "image"
         THEN FullOneShotImage(c1, user_story, image_input)
         ELSE FullOneShotText(c1, user_story, image_input)

TabRet(action) == Ret(action, NoneText, NoneStr, "tab", None, None, NoneStr, <<>>)

on_text_tab_select_keepsResults ==
    Return([app |-> [app_state EXCEPT !.current_mode = "text",
                                      !.image_path = NoneStr],
            es |-> emo_src, bs |-> brief_src, cleared |-> "nothing"],
           TabRet("on_text_tab_select"))

on_text_tab_select ==
    Return([app |-> [app_state EXCEPT !.current_mode = "text",
                                      !.image_path = NoneStr,
                                      !.emotion_result = None,
                                      !.music_brief = None],
            es |-> None, bs |-> None, cleared |-> clear(Cache).cleared],
           TabRet("on_text_tab_select"))

on_image_tab_select_keepsResults ==
    Return([app |-> [app_state EXCEPT !.current_mode = "image",
                                      !.user_story = NoneText],
            es |-> emo_src, bs |-> brief_src, cleared |-> "nothing"],
           TabRet("on_image_tab_select"))

on_image_tab_select ==
    Return([app |-> [app_state EXCEPT !.current_mode = "image",
                                      !.user_story = NoneText,
                                      !.emotion_result = None,
                                      !.music_brief = None],
            es |-> None, bs |-> None, cleared |-> clear(Cache).cleared],
           TabRet("on_image_tab_select"))

(***************************************************************************)
(* SpecUI: any sequence of the three actions and the two tab selections,   *)
(* each run to completion                                                  *)
(***************************************************************************)
\* What the two input components hold when a button is clicked.  With an
\* image present the handlers never read the story.
UIInputs ==
    {[story |-> t, image |-> NoneStr] : t \in Texts \cup {NoneText}}
    \cup {[story |-> t, image |-> img] : t \in {<<>>, <<"a">>}, img \in Images}

InitUI ==
    /\ app_state = AppStateInit
    /\ emo_src = None
    /\ brief_src = None
    /\ last = None
    /\ env \in Envs
    /\ have_replicate = FALSE       \* not read by the handlers
    /\ AggOff /\ GraphOff /\ SynOff /\ RaceOff /\ GenOff

AnalyzeEmotionOnly     == \E inp \in UIInputs : analyze_emotion_only(inp.story, inp.image)
GenerateMusicBriefOnly == \E inp \in UIInputs : generate_music_brief_only(inp.story, inp.image)
GenerateFullMusic      == \E inp \in UIInputs : generate_full_music(inp.story, inp.image)

NextUI ==
    \/ AnalyzeEmotionOnly
    \/ GenerateMusicBriefOnly
    \/ GenerateFullMusic
    \/ on_text_tab_select
    \/ on_image_tab_select

SpecUI == InitUI /\ [][NextUI]_vars

(***************************************************************************)
(* SpecRace: invocations of analyze_emotion_only on a story, statement by  *)
(* statement, on the one module-level app_state (gradio_app.py, lines      *)
(* 192-193 and 222-244).  The handler takes no lock and the event wiring   *)
(* sets no queue bound, so a second invocation may start while the first   *)
(* waits for the emotion model.                                            *)
(***************************************************************************)
Threads == {1, 2}

ThreadIdle == [pc |-> "idle", story |-> NoneText, emo |-> None]

\* The stories typed: blank, two that differ only in whitespace, and one
\* that differs.
RaceStories == {<<" ">>, <<"a">>, <<" ", "a">>, <<"a", "a">>}

RaceEnvs == {e \in Envs : e.REPLICATE_API_TOKEN = NoneStr /\ e.USE_REPLICATE = NoneStr}

InitRace ==
    /\ app_state = AppStateInit
    /\ emo_src = None
    /\ brief_src = None
    /\ last = None
    /\ race = [thr |-> [t \in Threads |-> ThreadIdle],
               ret_src |-> None,        \* what the emotion last returned was analysed from
               overlapped |-> FALSE]    \* an invocation began while another was in progress
    /\ env \in RaceEnvs
    /\ have_replicate = FALSE
    /\ AggOff /\ GraphOff /\ SynOff /\ GenOff

RaceFrame == UNCHANGED <<aggVars, graphVars, envVars, synVars, genVars>>

RaceAt(t, loc) == race.thr[t].pc = loc
RaceGoto(t, loc) == [race EXCEPT !.thr[t].pc = loc]

\* The event fires: the handler starts and tests its input (lines 223-224).
RaceInvoke(t, user_story) ==
    /\ RaceAt(t, "idle")
    /\ IF _norm(user_story) = <<>>
       THEN /\ last' = Ret("analyze_emotion_only", user_story, NoneStr,
                           "empty", None, None, NoneStr, <<>>)
            /\ race' = [race EXCEPT !.ret_src = None]
       ELSE /\ race' = [race EXCEPT
                          !.thr[t] = [pc |-> "compare", story |-> user_story, emo |-> None],
                          !.overlapped = @ \/ \E u \in Threads \ {t} : ~RaceAt(u, "idle")]
            /\ UNCHANGED last
    /\ UNCHANGED <<app_state, emo_src, brief_src>>
    /\ RaceFrame

\* Line 227: if app_state.user_story != _norm(user_story)
RaceCompare(t) ==
    /\ RaceAt(t, "compare")
    /\ race' = RaceGoto(t, IF app_state.user_story # _norm(race.thr[t].story)
                           THEN "clear" ELSE "has")
    /\ UNCHANGED uiVars
    /\ RaceFrame

RaceClear_keepsResults(t) ==
    /\ RaceAt(t, "clear")
    /\ app_state' = [app_state EXCEPT !.user_story = NoneText]
    /\ race' = RaceGoto(t, "set_story")
    /\ UNCHANGED <<emo_src, brief_src, last>>
    /\ RaceFrame

\* Line 228: app_state.clear()
RaceClear(t) ==
    /\ RaceAt(t, "clear")
    /\ app_state' = clear(Cache).app
    /\ emo_src' = clear(Cache).es
    /\ brief_src' = clear(Cache).bs
    /\ race' = RaceGoto(t, "set_story")
    /\ UNCHANGED last
    /\ RaceFrame

\* Line 229: app_state.set_story(user_story)
RaceSetStory(t) ==
    /\ RaceAt(t, "set_story")
    /\ app_state' = set_story(Cache, race.thr[t].story).app
    /\ race' = RaceGoto(t, "has")
    /\ UNCHANGED <<emo_src, brief_src, last>>
    /\ RaceFrame

\* Lines 231-234: the cache-hit test and, on a hit, the return of the cached
\* emotion.
RaceHas(t) ==
    /\ RaceAt(t, "has")
    /\ IF has_emotion_analysis(app_state, race.thr[t].story, NoneStr)
       THEN /\ last' = Ret("analyze_emotion_only", race.thr[t].story, NoneStr,
                           "reuse", app_state.emotion_result, None, NoneStr, <<>>)
            /\ race' = [race EXCEPT !.thr[t] = ThreadIdle, !.ret_src = emo_src]
       ELSE /\ race' = RaceGoto(t, "call")
            /\ UNCHANGED last
    /\ UNCHANGED <<app_state, emo_src, brief_src>>
    /\ RaceFrame

\* Lines 237-238: analyze_emotion_node(state); an exception goes to the
\* except clause (lines 246-248).
RaceCall(t) ==
    /\ RaceAt(t, "call")
    /\ \E out \in LLMEmotionOutcomes :
         LET emo == analyze_emotion_node(out)
             calls == <<CallEmotionText(race.thr[t].story)>>
         IN  IF IsError(emo)
             THEN /\ last' = RetError("analyze_emotion_only", race.thr[t].story,
                                      NoneStr, emo, calls)
                  /\ race' = [race EXCEPT !.thr[t] = ThreadIdle, !.ret_src = None]
             ELSE /\ race' = [race EXCEPT !.thr[t].pc = "store", !.thr[t].emo = emo]
                  /\ UNCHANGED last
    /\ UNCHANGED <<app_state, emo_src, brief_src>>
    /\ RaceFrame

\* Line 239: app_state.emotion_result = state.get("emotion")
RaceStore(t) ==
    /\ RaceAt(t, "store")
    /\ app_state' = [app_state EXCEPT !.emotion_result = race.thr[t].emo]
    /\ emo_src' = FromText(race.thr[t].story)
    /\ race' = RaceGoto(t, "render")
    /\ UNCHANGED <<brief_src, last>>
    /\ RaceFrame

\* Lines 241-244: md_emotion(app_state.emotion_result) and the return.
RaceRender(t) ==
    /\ RaceAt(t, "render")
    /\ last' = Ret("analyze_emotion_only", race.thr[t].story, NoneStr,
                   "done", app_state.emotion_result, None, NoneStr,
                   <<CallEmotionText(race.thr[t].story)>>)
    /\ race' = [race EXCEPT !.thr[t] = ThreadIdle, !.ret_src = emo_src]
    /\ UNCHANGED <<app_state, emo_src, brief_src>>
    /\ RaceFrame

RaceStep(t) ==
    \/ \E s \in RaceStories : RaceInvoke(t, s)
    \/ RaceCompare(t)
    \/ RaceClear(t)
    \/ RaceSetStory(t)
    \/ RaceHas(t)
    \/ RaceCall(t)
    \/ RaceStore(t)
    \/ RaceRender(t)

NextRace == \E t \in Threads : RaceStep(t)

SpecRace == InitRace /\ [][NextRace]_vars

(***************************************************************************)
(* SpecKeyword: the keyword prototype (music_generator.py): calls of       *)
(* process_text_and_generate_music on the one MusicGenerator that          *)
(* create_gradio_interface builds (line 114).  Korean keywords and choices *)
(* are written as tags; the timestamp 'generated_at' is left out.          *)
(***************************************************************************)
\* The keys of emotion_keywords in insertion order (lines 12-19).
EMOTIONS == <<"happy", "sad", "calm", "energetic", "romantic", "mysterious">>
EmotionSet == {EMOTIONS[i] : i \in DOMAIN EMOTIONS}

\* TextAnalyzer.emotion_keywords, one or two keywords of each list.
emotion_keywords(e) ==
    CASE e = "happy"      -> {"kw:joy", "kw:love"}
      [] e = "sad"        -> {"kw:tear"}
      [] e = "calm"       -> {"kw:rest"}
      [] e = "energetic"  -> {"kw:passion"}
      [] e = "romantic"   -> {"kw:love", "kw:sweet"}
      [] e = "mysterious" -> {"kw:dark"}

\* TextAnalyzer.music_characteristics: tempo and key.
music_characteristics(e) ==
    CASE e = "happy"      -> [tempo |-> "fast",   key |-> "major"]
      [] e = "sad"        -> [tempo |-> "slow",   key |-> "minor"]
      [] e = "calm"       -> [tempo |-> "slow",   key |-> "major"]
      [] e = "energetic"  -> [tempo |-> "fast",   key |-> "major"]
      [] e = "romantic"   -> [tempo |-> "medium", key |-> "major"]
      [] e = "mysterious" -> [tempo |-> "medium", key |-> "minor"]

\* TextAnalyzer.music_characteristics: the instruments lists as __init__
\* builds them.  Each is one list object, held by the analyzer for its life.
InstrumentsInit ==
    [e \in EmotionSet |->
        CASE e = "happy"      -> <<"piano", "guitar", "drums">>
          [] e = "sad"        -> <<"piano", "strings", "cello">>
          [] e = "calm"       -> <<"piano", "flute", "ambient">>
          [] e = "energetic"  -> <<"drums", "electric_guitar", "bass">>
          [] e = "romantic"   -> <<"piano", "violin", "soft_synth">>
          [] e = "mysterious" -> <<"synth", "ambient", "dark_piano">>]

\* An input text: up to MaxWords keywords, followed by a number of
\* characters that belong to no keyword and are not whitespace.
KwTokens == {"kw:joy", "kw:tear"}
Fillers == {0, 48, 198}
KwTexts == [words : UNION {[1..n -> KwTokens] : n \in 0..MaxWords}, filler : Fillers]

\* Both keywords are two characters long.
TokenLen(w) == 2

RECURSIVE WordsLen(_)
WordsLen(ws) == IF ws = <<>> THEN 0 ELSE TokenLen(ws[1]) + WordsLen(Tail(ws))

\* len(text)
TextLen(text) == WordsLen(text.words) + text.filler

\* input_text.strip() is empty: these texts hold no whitespace, so only the
\* empty text is.
Blank(text) == TextLen(text) = 0

\* TextAnalyzer.analyze_emotion: the score of an emotion is the number of
\* occurrences of its keywords; the primary emotion is the first in
\* insertion order with the highest score.
Score(text, e) ==
    Cardinality({i \in DOMAIN text.words : text.words[i] \in emotion_keywords(e)})

emotion_scores(text) == [e \in EmotionSet |-> Score(text, e)]

RECURSIVE FirstMax(_, _, _)
FirstMax(text, i, best) ==
    IF i > Len(EMOTIONS) THEN best
    ELSE FirstMax(text, i + 1,
                  IF Score(text, EMOTIONS[i]) > Score(text, best) THEN EMOTIONS[i] ELSE best)

analyze_emotion(text) == FirstMax(text, 2, EMOTIONS[1])

\* Lines 50-56.
Duration(text) ==
    IF TextLen(text) < 50 THEN 30
    ELSE IF TextLen(text) < 200 THEN 60
    ELSE 120

\* TextAnalyzer.extract_music_params: a new dict whose 'instruments' is the
\* analyzer's own list (instr is the current content of those lists).
extract_music_params(instr, text, emotion) ==
    [emotion     |-> emotion,
     tempo       |-> music_characteristics(emotion).tempo,
     key         |-> music_characteristics(emotion).key,
     instruments |-> instr[emotion],
     duration    |-> Duration(text),
     text_length |-> TextLen(text),
     style_override |-> NoneStr]

TherapyModes == {"ko:auto", "ko:calm-down", "ko:energy-boost", "ko:catharsis"}
MusicStyles  == {"ko:auto", "ko:jazz"}

KwCalls == [text : KwTexts, therapy_mode : TherapyModes, music_style : MusicStyles]

\* process_text_and_generate_music on a generator whose instruments lists
\* hold instr: the call, what it returns and what the lists hold afterwards.  The
\* append of line 131 goes to the analyzer's list, which the returned
\* parameters share.
process_text_and_generate_music(instr, call) ==
    IF Blank(call.text)
    THEN [call |-> call,
          out |-> [analysis |-> "ko:enter-text", audio |-> None, metadata |-> None],
          instruments |-> instr]
    ELSE LET emotion == analyze_emotion(call.text)
             p0 == extract_music_params(instr, call.text, emotion)
             p1 == IF call.therapy_mode = "ko:calm-down"
                   THEN [p0 EXCEPT !.tempo = "slow", !.key = "major"]
                   ELSE IF call.therapy_mode = "ko:energy-boost"
                   THEN [p0 EXCEPT !.tempo = "fast",
                                   !.instruments = Append(@, "upbeat_drums")]
                   ELSE p0
             p2 == IF call.music_style # "ko:auto"
                   THEN [p1 EXCEPT !.style_override = call.music_style]
                   ELSE p1
         IN  [call |-> call,
              out |-> [analysis |-> "ko:result",
                       audio    |-> [duration |-> p2.duration],
                       metadata |-> [input_text |-> call.text,
                                     primary_emotion |-> emotion,
                                     emotion_scores |-> emotion_scores(call.text),
                                     music_parameters |-> p2,
                                     status |-> "metadata_generated"]],
              instruments |-> [instr EXCEPT ![emotion] = p2.instruments]]

InitKeyword ==
    /\ gen = [instruments |-> InstrumentsInit, call |-> None, out |-> None]
    /\ AggOff /\ GraphOff /\ UIOff /\ EnvOff /\ SynOff /\ RaceOff

\* The button is clicked (lines 275-279).  The lists are kept to at most
\* MaxUpbeat appended entries.
GenerateClick ==
    \E call \in KwCalls :
        /\ (call.therapy_mode = "ko:energy-boost" /\ ~Blank(call.text)) =>
                Len(gen.instruments[analyze_emotion(call.text)]) < 3 + MaxUpbeat
        /\ gen' = process_text_and_generate_music(gen.instruments, call)
        /\ UNCHANGED <<aggVars, graphVars, envVars, uiVars, synVars, raceVars>>

NextKeyword == GenerateClick

SpecKeyword == InitKeyword /\ [][NextKeyword]_vars

(***************************************************************************)
(* SpecSynth: one call of generate_with_replicate_strict, step by step     *)
(* (music_generator_core.py, lines 146-222)                                *)
(***************************************************************************)
\* The durations (int seconds) a caller passes.
SynthDurations == {90, 119, 120, 150, 180, 181, 400}

\* The environments the synthesizer is called in; the token may also be set
\* to the empty string.
SynthEnvs == [OPENAI_API_KEY      : {"sk-key"},
              REPLICATE_API_TOKEN : {NoneStr, "", "r8-token"},
              USE_REPLICATE       : {NoneStr, "0", "1"}]

\* The statuses a prediction of the hosted API goes through.
JobStatuses == {"starting", "processing", "succeeded", "failed", "canceled"}
StatusRank(st) == CASE st = "starting" -> 0 [] st = "processing" -> 1 [] OTHER -> 2

Terminal_noCanceled == {"succeeded", "failed"}

\* pred["status"] not in ("succeeded", "failed", "canceled") ends the loop
Terminal == {"succeeded", "failed", "canceled"}

JobSucceeded_notFailed(status) == status # "failed"

\* pred["status"] != "succeeded" raises
JobSucceeded(status) == status = "succeeded"

\* What the output is: a FileOutput, a URL string, a dict carrying a URL
\* string (each alone or first in a list), a dict carrying none, an empty
\* list, or anything else.
OutputShapes == {"file", "url", "dict_url", "dict_other", "empty_list", "other"}

\* The call at its entry: nothing asserted, no job, no file.
SynStart(prompt, duration) ==
    [pc |-> "assert", prompt |-> prompt, duration |-> duration,
     payload |-> None,      \* the input_payload handed to _replicate_run
     remote |-> NoneStr,    \* the status of the job at the hosted API
     pred |-> NoneStr,      \* pred["status"], the status last observed
     out |-> NoneStr,       \* the shape of the output _replicate_run returned
     jobs |-> 0,            \* generation jobs created
     polls |-> 0,           \* status polls made, counted up to MaxPolls
     tick |-> 0,            \* parity of the status polls made
     files |-> 0,           \* files written under outputs/
     result |-> NoneStr,    \* the path returned
     exc |-> NoneStr]       \* the exception raised

Raise(st, kind) == [st EXCEPT !.pc = "raised", !.exc = kind]

InitSynth ==
    /\ \E d \in SynthDurations : syn = SynStart("gentle warm piano over a soft pad", d)
    /\ env \in SynthEnvs
    /\ have_replicate \in BOOLEAN
    /\ AggOff /\ GraphOff /\ UIOff /\ RaceOff /\ GenOff

SynFrame == UNCHANGED <<aggVars, graphVars, envVars, uiVars, raceVars, genVars>>

\* Lines 218-221: the two assertions, then the payload is built and
\* _replicate_run chooses the client or the REST path.
StrictAssert ==
    /\ syn.pc = "assert"
    /\ syn' = IF ~EnvSet(env, "REPLICATE_API_TOKEN")
              THEN Raise(syn, "AssertionError: token")
              ELSE IF ~DurationInRange(syn.duration)
              THEN Raise(syn, "AssertionError: duration")
              ELSE [syn EXCEPT !.pc = IF have_replicate THEN "client" ELSE "create",
                               !.payload = [prompt |-> syn.prompt,
                                            duration |-> syn.duration]]
    /\ SynFrame

\* Lines 148-149: replicate.run creates the prediction and waits for it; it
\* returns the output or raises.
ReplicateClientRun ==
    /\ syn.pc = "client"
    /\ \/ syn' = Raise([syn EXCEPT !.jobs = @ + 1, !.remote = "failed"], "ModelError")
       \/ \E sh \in OutputShapes :
            syn' = [syn EXCEPT !.pc = "save", !.jobs = @ + 1,
                               !.remote = "succeeded", !.out = sh]
    /\ SynFrame

\* Lines 151-158: POST /v1/predictions; raise_for_status raises on an HTTP
\* error, else the job exists and pred is the answer.
RestCreate ==
    /\ syn.pc = "create"
    /\ \/ syn' = Raise(syn, "HTTPError")
       \/ \E st \in JobStatuses :
            syn' = [syn EXCEPT !.pc = "loop", !.jobs = @ + 1,
                               !.remote = st, !.pred = st]
    /\ SynFrame

\* The hosted job advances on its own.
RemoteStep ==
    /\ syn.pc \in {"loop", "raised"}
    /\ syn.remote \in JobStatuses
    /\ \E st \in JobStatuses :
        /\ StatusRank(st) > StatusRank(syn.remote)
        /\ syn' = [syn EXCEPT !.remote = st]
    /\ SynFrame

\* Lines 159-163: one turn of the while loop: sleep, GET, raise_for_status.
RestPoll ==
    /\ syn.pc = "loop"
    /\ syn.pred \notin Terminal
    /\ LET polled == [syn EXCEPT !.polls = Min(MaxPolls, @ + 1), !.tick = 1 - @] IN
       \/ syn' = Raise(polled, "HTTPError")
       \/ syn' = [polled EXCEPT !.pred = syn.remote]
    /\ SynFrame

\* Lines 164-166: the loop has ended.
RestFinish ==
    /\ syn.pc = "loop"
    /\ syn.pred \in Terminal
    /\ \/ /\ ~JobSucceeded(syn.pred)
          /\ syn' = Raise(syn, "Replicate failed")
       \/ /\ JobSucceeded(syn.pred)
          /\ \E sh \in OutputShapes : syn' = [syn EXCEPT !.pc = "save", !.out = sh]
    /\ SynFrame

\* Lines 170-215: the first output is written to a file under outputs/; a
\* URL is downloaded first; any other shape raises.
_save_first_output_to_file ==
    /\ syn.pc = "save"
    /\ LET saved == [syn EXCEPT !.pc = "returned", !.files = @ + 1,
                                !.result = SavedPath]
       IN  IF syn.out = "empty_list"        \* first = out[0]
           THEN syn' = Raise(syn, "IndexError")
           ELSE IF syn.out \in {"other", "dict_other"}
           THEN syn' = Raise(syn, "Unexpected replicate output type")
           ELSE IF syn.out = "file"
           THEN syn' = saved
           ELSE syn' = saved \/ syn' = Raise(syn, "HTTPError")
    /\ SynFrame

\* The steps the program takes.
SynthStep ==
    \/ StrictAssert
    \/ ReplicateClientRun
    \/ RestCreate
    \/ RestPoll
    \/ RestFinish
    \/ _save_first_output_to_file

NextSynth == SynthStep \/ RemoteStep

SpecSynth == InitSynth /\ [][NextSynth]_vars

\* The program keeps running, HTTP calls return, and the hosted job keeps
\* advancing until it is terminal.
SpecSynthFair ==
    /\ InitSynth /\ [][NextSynth]_vars
    /\ WF_vars(SynthStep)
    /\ WF_vars(RemoteStep)

(***************************************************************************)
(* Properties of the aggregator (SpecAgg)                                  *)
(***************************************************************************)
Between(x, a, b) == Min(a, b) <= x /\ x <= Max(a, b)

AggTwo == agg # None /\ Len(ranked) >= 2

ClampScore(sc) == IF sc < 500 THEN 500 ELSE IF sc > 900 THEN 900 ELSE sc

\* C5: in both branches the confidence computed is the top-1 score clamped
\* into [0.5, 0.9] (0.99 gives 0.9, 0.1 gives 0.5), whatever the second score
\* is; what is stored is that value at two decimals, still in [0.5, 0.9].
C5_ConfidenceBound ==
    agg # None =>
        /\ agg.locals.confidence = Frac(ClampScore(ranked[1].score), 1)
        /\ agg.emotion.confidence \in 500..900
        /\ agg.emotion.confidence % 10 = 0
        /\ agg.emotion.confidence - ClampScore(ranked[1].score) \in -5..5
        /\ ranked[1].score = 990 => agg.emotion.confidence = 900
        /\ ranked[1].score = 100 => agg.emotion.confidence = 500

\* A two-candidate list whose top score is above the upper clamp.
C5_Witness ==
    /\ AggTwo
    /\ ranked[1].score = 990
    /\ agg.emotion.confidence = 900

C7_Input ==
    /\ AggTwo
    /\ ranked[1].label = "A happy and joyful photo" /\ ranked[1].score = 800
    /\ ranked[2].label = "A calm and peaceful photo" /\ ranked[2].score = 150

\* C7 (as stated): happy 0.8 then calm 0.15 gives joy, valence 0.66,
\* arousal 0.56, confidence 0.8.
C7_ScenarioValence066 ==
    C7_Input =>
        /\ agg.emotion.primary = "joy"
        /\ agg.emotion.valence = 660
        /\ agg.emotion.arousal = 560
        /\ agg.emotion.confidence = 800

\* C7 (amended): happy 0.8 then calm 0.15 gives joy, valence 0.65
\* (0.62 / 0.95 = 0.6526...), arousal 0.56, confidence 0.8.
C7_Scenario ==
    C7_Input =>
        /\ agg.emotion.primary = "joy"
        /\ agg.emotion.valence = 650
        /\ agg.emotion.arousal = 560
        /\ agg.emotion.confidence = 800

C7_Witness == C7_Input /\ agg.emotion.primary = "joy" /\ agg.emotion.arousal = 560

\* C20: for every ranked list (one candidate or more, any scores, ties
\* included) the primary label computed and stored is the primary hint of the
\* first candidate, whatever the second candidate is.
C20_PrimaryFromTop1 ==
    agg # None =>
        /\ agg.locals.primary = ranked[1].hints.primary
        /\ agg.emotion.primary = ranked[1].hints.primary
        /\ agg.emotion.reasons.primary_ko = KO_PRIMARY(ranked[1].hints.primary)

\* Two candidates with equal positive scores and different primary hints.
C20_Witness ==
    /\ AggTwo
    /\ ranked[1].score = ranked[2].score /\ ranked[1].score > 0
    /\ ranked[2].hints.primary # ranked[1].hints.primary
    /\ agg.emotion.primary = ranked[1].hints.primary

\* C21: with the top-1 and top-2 scores both zero the combined weight is 1.0,
\* nothing is divided by zero and the EmotionResult has valence 0, arousal 0
\* and confidence 0.5; for every other pair the weights are the scores over
\* their sum.
C21_ZeroScoreBlend ==
    AggTwo =>
        LET top == ranked[1]
            second == ranked[2]
            w1 == top.score
            w2 == second.score
        IN  /\ agg.locals.valence.d > 0 /\ agg.locals.arousal.d > 0
            /\ (w1 = 0 /\ w2 = 0) =>
                    /\ agg.locals.valence = Frac(0, 1000)
                    /\ agg.locals.arousal = Frac(0, 1000)
                    /\ agg.emotion.valence = 0
                    /\ agg.emotion.arousal = 0
                    /\ agg.emotion.confidence = 500
            /\ (w1 + w2 > 0) =>
                    /\ agg.locals.valence =
                         Frac(top.hints.valence * w1 + second.hints.valence * w2, w1 + w2)
                    /\ agg.locals.arousal =
                         Frac(top.hints.arousal * w1 + second.hints.arousal * w2, w1 + w2)

\* Both scores are zero and the result is (0, 0, 0.5).
C21_Witness ==
    /\ AggTwo
    /\ ranked[1].score = 0 /\ ranked[2].score = 0
    /\ agg.emotion.valence = 0 /\ agg.emotion.arousal = 0
    /\ agg.emotion.confidence = 500

\* Every candidate that can stand in a ranked list.
AnyCandidate == {Candidate(m, sc) : m \in 1..Len(CLIP_MOODS), sc \in Scores}

\* C24: the EmotionResult of a ranked list is the EmotionResult of its first
\* two entries alone: dropping, replacing or adding candidates after the
\* second changes neither primary, valence, arousal, confidence nor the
\* explanation.
C24_OnlyTopTwoConsumed ==
    AggTwo =>
        /\ agg.emotion = analyze_emotion_from_image_node(<<ranked[1], ranked[2]>>, fp)
        /\ \A c \in AnyCandidate :
              /\ analyze_emotion_from_image_node(<<ranked[1], ranked[2], c>>, fp) = agg.emotion
              /\ Len(ranked) >= 3 =>
                    analyze_emotion_from_image_node([ranked EXCEPT ![3] = c], fp) = agg.emotion

\* A list of three whose third candidate has a positive score and another
\* mood than the first two.
C24_Witness ==
    /\ agg # None
    /\ Len(ranked) = 3
    /\ ranked[3].score > 0
    /\ ranked[3].label # ranked[2].label
    /\ agg.emotion.reasons.sec_ko = KO_LABEL(ranked[2].label)

(***************************************************************************)
(* Properties of the text pipeline graph (SpecGraph)                       *)
(***************************************************************************)
NodeSeq == [i \in DOMAIN trace |-> trace[i].node]
HasRun(node) == \E i \in DOMAIN trace : trace[i].node = node
IsPrefix(a, b) == Len(a) <= Len(b) /\ \A i \in DOMAIN a : a[i] = b[i]

\* C3 (as stated): whatever duration the upstream generator returns,
\* compose_brief_node completes and stores a brief whose duration_sec is that
\* value clamped into [120,180] (90 is stored as 120, 400 as 180).
C3_DurationClamp ==
    \A i \in DOMAIN trace :
        (trace[i].node = "compose_brief" /\ ~IsError(trace[i].out)) =>
            /\ gstate.brief # None
            /\ gstate.brief.duration_sec \in 120..180
            /\ gstate.brief.duration_sec = Min(180, Max(120, trace[i].out.duration_sec))

FlagIsOne    == env.USE_REPLICATE = "1"
TokenPresent == env.REPLICATE_API_TOKEN # NoneStr
GoesToGenerate == pc = "generate_music" \/ HasRun("generate_music")
GoesToSkipped  == pc = "mark_skipped" \/ HasRun("mark_skipped")

ForceOrFlag == FlagIsOne \/ gstate.force_generate = "True"

C9_Ordering ==
    /\ \/ IsPrefix(NodeSeq, <<"analyze_emotion", "compose_brief", "generate_music">>)
       \/ IsPrefix(NodeSeq, <<"analyze_emotion", "compose_brief", "mark_skipped">>)
    /\ pc \in {"generate_music", "mark_skipped"} =>
            NodeSeq = <<"analyze_emotion", "compose_brief">>
    /\ pc = "END" => Len(trace) = 3
    /\ GoesToGenerate => (gstate.emotion # None /\ gstate.brief # None)
    /\ pc = "END" =>
            \/ gstate.provider_used = "skipped" /\ gstate.audio_path = NoneStr
            \/ /\ gstate.provider_used \in {"replicate", "rest"}
               /\ gstate.audio_path # NoneStr

\* A run that generated through the REST path and ended.
C9_Witness ==
    /\ pc = "END"
    /\ NodeSeq = <<"analyze_emotion", "compose_brief", "generate_music">>
    /\ gstate.provider_used = "rest"
    /\ gstate.audio_path = SavedPath

(***************************************************************************)
(* Properties of the UI actions (SpecUI)                                   *)
(***************************************************************************)
Actions3 == {"analyze_emotion_only", "generate_music_brief_only", "generate_full_music"}
Acted(l) == l # None /\ l.action \in Actions3
Called(l, fn) == \E i \in DOMAIN l.calls : l.calls[i].fn = fn

\* The identity of the input of invocation l: the image if one is supplied,
\* else the normalised story.
InputId(l) == IF l.image_input # NoneStr THEN [image |-> l.image_input]
                                          ELSE [text |-> _norm(l.user_story)]

\* Invocation l comes with the same text, or the same image path, as the
\* identity cached in st.
SameInput(st, l) ==
    IF l.image_input # NoneStr
    THEN st.image_path = l.image_input
    ELSE \/ st.user_story = l.user_story
         \/ st.user_story = _norm(l.user_story)

\* C1: an action invoked with the same text (or image path) as the input
\* identity cached with an EmotionResult does not invoke the emotion model,
\* keeps the cached EmotionResult, and shows no other EmotionResult.
C1_CacheHit ==
    [][ (Acted(last') /\ app_state.emotion_result # None /\ SameInput(app_state, last'))
        => /\ ~Called(last', "emotion")
           /\ app_state'.emotion_result = app_state.emotion_result
           /\ emo_src' = emo_src
           /\ last'.emotion_md \in {None, app_state.emotion_result}
           /\ last'.cleared = "no" ]_vars

\* analyze_emotion_only answered from the cache, for a story typed with
\* surrounding whitespace.
C1_Witness ==
    /\ Acted(last)
    /\ last.action = "analyze_emotion_only"
    /\ last.status = "reuse"
    /\ last.image_input = NoneStr
    /\ last.user_story # app_state.user_story
    /\ last.calls = <<>>
    /\ last.emotion_md = app_state.emotion_result
    /\ app_state.emotion_result # None

\* After invocation l nothing cached or shown predates the invocation: what
\* is cached or shown was computed by l, from l's input.
NothingOldKept(st, es, bs, l) ==
    /\ st.emotion_result # None => (Called(l, "emotion") /\ es = InputId(l))
    /\ st.music_brief # None =>
            /\ Called(l, "compose")
            /\ bs.input = InputId(l)
            /\ bs.emotion = st.emotion_result
    /\ l.emotion_md # None => Called(l, "emotion")
    /\ l.brief_md # None => Called(l, "compose")

\* C2 (as stated): whenever an action is invoked with a text or image
\* different from the cached input identity, the cached EmotionResult and
\* MusicBrief are discarded and nothing computed from the previous input is
\* reused or shown.
C2_AnyDifferentInput ==
    [][ (/\ Acted(last')
         /\ IF last'.image_input # NoneStr
            THEN last'.image_input # app_state.image_path
            ELSE last'.user_story # app_state.user_story)
        => NothingOldKept(app_state', emo_src', brief_src', last') ]_vars

\* C2 (amended): whenever an action is invoked with an image, or with a text
\* that is not empty once whitespace-normalised, whose identity (the image
\* path, or the normalised text) differs from the cached input identity, the
\* cached EmotionResult and MusicBrief are discarded and nothing computed from
\* the previous input is reused or shown.
C2_InputChangeInvalidates ==
    [][ (/\ Acted(last')
         /\ IF last'.image_input # NoneStr
            THEN last'.image_input # app_state.image_path
            ELSE /\ _norm(last'.user_story) # <<>>
                 /\ _norm(last'.user_story) # app_state.user_story)
        => /\ NothingOldKept(app_state', emo_src', brief_src', last')
           /\ last'.cleared # "no" ]_vars

\* A new input displaced a cached emotion and brief, and a new brief was
\* composed for it.
C2_Witness ==
    /\ Acted(last)
    /\ last.cleared = "emotion+brief"
    /\ last.action = "generate_music_brief_only"
    /\ last.status = "done"
    /\ app_state.music_brief # None
    /\ brief_src.input = InputId(last)

AllWhitespace(s) == s = NoneText \/ \A i \in DOMAIN s : s[i] = " "

\* C6: with no image and a story that is empty or all whitespace, each of the
\* three actions returns the empty-input status and calls neither the emotion
\* model, nor the brief composer, nor the synthesizer.
C6_EmptyTextRejected ==
    (Acted(last) /\ last.image_input = NoneStr /\ AllWhitespace(last.user_story)) =>
        /\ last.status = "empty"
        /\ last.calls = <<>>
        /\ last.emotion_md = None /\ last.brief_md = None /\ last.audio = NoneStr

\* generate_full_music rejected a story of one blank.
C6_Witness ==
    /\ Acted(last)
    /\ last.action = "generate_full_music"
    /\ last.image_input = NoneStr
    /\ last.user_story = <<" ">>
    /\ last.status = "empty"

SynthesisEnabled == env.USE_REPLICATE = "1" /\ env.REPLICATE_API_TOKEN # NoneStr

\* The synthesizer is called only by generate_full_music with synthesis on.
SynthOnlyWhenEnabled(l) ==
    (l # None /\ Called(l, "synth")) =>
        (l.action = "generate_full_music" /\ SynthesisEnabled)

\* Invocation l left the emotion and the brief of its input cached and shown,
\* and returned no audio.
YieldsEmotionAndBrief(st, es, bs, l) ==
    /\ st.emotion_result # None /\ es = InputId(l)
    /\ st.music_brief # None /\ bs.input = InputId(l) /\ bs.emotion = st.emotion_result
    /\ l.emotion_md = st.emotion_result
    /\ l.brief_md = st.music_brief
    /\ l.audio = NoneStr

\* The input of l is an image or a story that is not blank.
NonEmptyInput(l) == l.image_input # NoneStr \/ ~AllWhitespace(l.user_story)

\* C10 (as stated): the synthesizer is called only by generate_full_music with
\* USE_REPLICATE "1" and the token present; with the flag off or the token
\* absent generate_full_music still yields emotion and brief for the current
\* input and returns no audio.
C10_AlwaysYieldsWhenDisabled ==
    /\ SynthOnlyWhenEnabled(last)
    /\ (Acted(last) /\ last.action = "generate_full_music"
            /\ NonEmptyInput(last) /\ ~SynthesisEnabled)
        => YieldsEmotionAndBrief(app_state, emo_src, brief_src, last)

\* The cache of st holds an emotion / a brief for the input of l.
HadEmotionFor(st, l) ==
    st.emotion_result # None /\
    (IF l.image_input # NoneStr THEN st.image_path = l.image_input
                                ELSE st.user_story = _norm(l.user_story))
HadBriefFor(st, l) ==
    st.music_brief # None /\
    (IF l.image_input # NoneStr THEN st.image_path = l.image_input
                                ELSE st.user_story = _norm(l.user_story))

\* C10 (amended): the synthesizer is called only by generate_full_music with
\* USE_REPLICATE "1" and the token present; with the flag off or the token
\* absent, generate_full_music on a non-empty input, when OPENAI_API_KEY is
\* present and no call it makes fails, yields emotion and brief for the current
\* input, calling the emotion model and the composer exactly for what is
\* missing, and returns no audio.
C10_SynthesisOnlyWhenEnabled ==
    [][ /\ SynthOnlyWhenEnabled(last')
        /\ (/\ Acted(last') /\ last'.action = "generate_full_music"
            /\ NonEmptyInput(last') /\ ~SynthesisEnabled
            /\ env.OPENAI_API_KEY # NoneStr
            /\ last'.status # "error")
           => /\ YieldsEmotionAndBrief(app_state', emo_src', brief_src', last')
              /\ Called(last', "emotion") <=> ~HadEmotionFor(app_state, last')
              /\ Called(last', "compose") <=> ~HadBriefFor(app_state, last')
              /\ ~Called(last', "synth") ]_vars

\* With the flag not "1", generate_full_music reused the cached emotion,
\* composed the missing brief and returned no audio.
C10_Witness ==
    /\ Acted(last)
    /\ last.action = "generate_full_music"
    /\ env.USE_REPLICATE = "0" /\ env.REPLICATE_API_TOKEN # NoneStr
    /\ last.status = "synth_skipped"
    /\ Called(last, "compose") /\ ~Called(last, "emotion")
    /\ last.brief_md = app_state.music_brief
    /\ last.audio = NoneStr

\* C12: whatever is raised inside one of the three actions (a model or schema
\* error, a missing image file, a synthesizer assertion, a failed job, an
\* unexpected output shape), the action returns the error status with no
\* emotion, no brief and no audio; nothing leaves the handler as an exception.
C12_ErrorsSurfaceAsStatus ==
    Acted(last) =>
        /\ last.status # "propagated"
        /\ last.exc # NoneStr =>
                /\ last.status = "error"
                /\ last.audio = NoneStr
                /\ last.emotion_md = None /\ last.brief_md = None
        /\ last.status = "error" => last.exc # NoneStr

\* generate_full_music returned the error status after the image file was
\* not found.
C12_Witness ==
    /\ Acted(last)
    /\ last.action = "generate_full_music"
    /\ last.exc = "FileNotFoundError"
    /\ last.status = "error"
    /\ last.audio = NoneStr

CallsTo(l, fn) == Cardinality({i \in DOMAIN l.calls : l.calls[i].fn = fn})

\* C13: one invocation of an action calls the emotion model at most once, the
\* brief composer at most once and the synthesizer at most once, whether the
\* calls succeed or fail.
C13_NoAutomaticRetry ==
    Acted(last) =>
        /\ CallsTo(last, "emotion") <= 1
        /\ CallsTo(last, "compose") <= 1
        /\ CallsTo(last, "synth") <= 1
        /\ Len(last.calls) <= 3

\* A one-shot generation whose job failed: three calls made, none repeated.
C13_Witness ==
    /\ Acted(last)
    /\ last.exc = "Replicate failed"
    /\ CallsTo(last, "emotion") = 1
    /\ CallsTo(last, "compose") = 1
    /\ CallsTo(last, "synth") = 1

EmotionInRange(e) ==
    /\ e.valence \in -1000..1000
    /\ e.arousal \in 0..1000
    /\ e.confidence \in 0..1000
EmotionRounded(e) ==
    e.valence % 10 = 0 /\ e.arousal % 10 = 0 /\ e.confidence % 10 = 0

\* C14 (as stated): every EmotionResult in the session cache, from the image
\* path or the text path, has valence in [-1,1], arousal and confidence in
\* [0,1], each rounded to two decimal places.
C14_AllStoredRounded ==
    app_state.emotion_result # None =>
        /\ EmotionInRange(app_state.emotion_result)
        /\ EmotionRounded(app_state.emotion_result)

\* C14 (amended): every EmotionResult in the session cache has valence in
\* [-1,1], arousal and confidence in [0,1]; one produced by the image path is
\* also rounded to two decimal places.
C14_EmotionResultInvariant ==
    app_state.emotion_result # None =>
        /\ EmotionInRange(app_state.emotion_result)
        /\ "image" \in DOMAIN emo_src => EmotionRounded(app_state.emotion_result)

\* An image emotion is cached: the blend 0.6526... stored as 0.65.
C14_Witness ==
    /\ app_state.emotion_result # None
    /\ "image" \in DOMAIN emo_src
    /\ app_state.emotion_result.valence = 650
    /\ app_state.emotion_result.primary = "joy"

TabActions == {"on_text_tab_select", "on_image_tab_select"}

\* C15 (as stated): once a brief is cached for the current input, no action
\* invoked with that same input replaces the cached brief with a newly
\* composed one.
C15_NeverRecomposed ==
    [][ (Acted(last') /\ HadBriefFor(app_state, last'))
        => app_state'.music_brief = app_state.music_brief ]_vars

\* C15 (amended): once a brief is cached for the current input,
\* analyze_emotion_only and generate_full_music invoked with that same input
\* neither compose a brief nor replace the cached one; a cached brief is
\* recomposed or dropped only by generate_music_brief_only, by an action
\* whose input differs, or by a tab selection.
C15_BriefCreatedOnce ==
    [][ /\ (Acted(last') /\ HadBriefFor(app_state, last')
                /\ last'.action # "generate_music_brief_only")
           => /\ ~Called(last', "compose")
              /\ app_state'.music_brief = app_state.music_brief
              /\ brief_src' = brief_src
        /\ (/\ app_state.music_brief # None
            /\ \/ app_state'.music_brief # app_state.music_brief
               \/ brief_src' # brief_src
               \/ Called(last', "compose"))
           => \/ last'.action = "generate_music_brief_only"
              \/ last'.action \in TabActions
              \/ last'.cleared # "no" ]_vars

\* generate_full_music, synthesis off, returned the brief that
\* generate_music_brief_only had cached, composing nothing.
C15_Witness ==
    /\ Acted(last)
    /\ last.action = "generate_full_music"
    /\ last.status = "synth_skipped"
    /\ last.calls = <<>>
    /\ last.brief_md = app_state.music_brief
    /\ app_state.music_brief # None

\* C16: with an emotion and a brief cached for the current input and
\* synthesis enabled, generate_full_music calls neither the emotion model nor
\* the composer, calls the synthesizer once with the cached brief's prompt and
\* duration_sec, and leaves the cached emotion and brief as they were.
C16_GenerateUsesCurrentDesign ==
    [][ (/\ Acted(last') /\ last'.action = "generate_full_music"
         /\ HadEmotionFor(app_state, last') /\ HadBriefFor(app_state, last')
         /\ SynthesisEnabled)
        => /\ last'.calls = << [fn |-> "synth",
                               prompt |-> app_state.music_brief.prompt,
                               duration |-> app_state.music_brief.duration_sec] >>
           /\ app_state'.emotion_result = app_state.emotion_result
           /\ app_state'.music_brief = app_state.music_brief
           /\ emo_src' = emo_src /\ brief_src' = brief_src ]_vars

\* Audio was generated from the cached design alone.
C16_Witness ==
    /\ Acted(last)
    /\ last.action = "generate_full_music"
    /\ last.status = "reuse_all"
    /\ last.audio = RenamedPath
    /\ Len(last.calls) = 1 /\ last.calls[1].fn = "synth"
    /\ last.calls[1].duration = app_state.music_brief.duration_sec

\* C17: generate_full_music invoked with a non-empty input and no
\* OPENAI_API_KEY returns the configuration-error status and calls neither
\* the emotion model, nor the composer, nor the synthesizer.
C17_MissingOpenAIKey ==
    (/\ Acted(last) /\ last.action = "generate_full_music"
     /\ NonEmptyInput(last)
     /\ env.OPENAI_API_KEY = NoneStr)
    => /\ last.status = "no_openai_key"
       /\ last.calls = <<>>
       /\ last.emotion_md = None /\ last.brief_md = None /\ last.audio = NoneStr

\* The key is missing while synthesis is enabled and an image is supplied.
C17_Witness ==
    /\ Acted(last)
    /\ last.action = "generate_full_music"
    /\ last.image_input # NoneStr
    /\ env.OPENAI_API_KEY = NoneStr
    /\ SynthesisEnabled
    /\ last.status = "no_openai_key"

\* C23: selecting the text tab sets the mode to text and clears the cached
\* image path, EmotionResult and MusicBrief, leaving the cached story;
\* selecting the image tab sets the mode to image and clears the cached story,
\* EmotionResult and MusicBrief, leaving the cached image path; the first
\* action after a tab selection that analyses its input calls the emotion
\* model, also for an unchanged input.
C23_TabSwitchResets ==
    [][ /\ last'.action = "on_text_tab_select" =>
              app_state' = [emotion_result |-> None, music_brief |-> None,
                            user_story |-> app_state.user_story,
                            image_path |-> NoneStr, current_mode |-> "text"]
        /\ last'.action = "on_image_tab_select" =>
              app_state' = [emotion_result |-> None, music_brief |-> None,
                            user_story |-> NoneText,
                            image_path |-> app_state.image_path, current_mode |-> "image"]
        /\ (/\ last # None /\ last.action \in TabActions
            /\ Acted(last') /\ NonEmptyInput(last')
            /\ last'.status # "no_openai_key")
           => /\ Called(last', "emotion")
              /\ last'.calls[1].fn = "emotion" ]_vars

\* The text tab was selected over a cached story with emotion and brief.
C23_Witness ==
    /\ last # None
    /\ last.action = "on_text_tab_select"
    /\ last.cleared = "emotion+brief"
    /\ app_state.user_story # NoneText
    /\ app_state.emotion_result = None /\ app_state.music_brief = None

StoryCached(st) == st.user_story # NoneText /\ st.user_story # <<>>
ImageCached(st) == st.image_path # NoneStr

\* C26: at most one of the cached story and the cached image path is set;
\* in image mode no story is cached, in text mode no image path.
C26_SingleInputIdentity ==
    /\ ~(StoryCached(app_state) /\ ImageCached(app_state))
    /\ app_state.current_mode = "image" => ~StoryCached(app_state)
    /\ app_state.current_mode = "text" => ~ImageCached(app_state)
    /\ app_state.current_mode \in {"text", "image"}

\* A text action displaced a cached image: the story is cached, the image
\* path is gone.
C26_Witness ==
    /\ Acted(last)
    /\ last.image_input = NoneStr
    /\ last.cleared \in {"emotion", "emotion+brief"}
    /\ StoryCached(app_state)
    /\ app_state.current_mode = "text"
    /\ emo_src = None \/ "text" \in DOMAIN emo_src
    /\ ~ImageCached(app_state)

\* The input identity the cache is keyed by.
CachedId(st) == IF st.current_mode = "image" THEN [image |-> st.image_path]
                                             ELSE [text |-> st.user_story]

\* C27: a cached MusicBrief implies a cached EmotionResult; the cached
\* EmotionResult was analysed from the cached input identity; the cached
\* MusicBrief was composed from the cached EmotionResult, for that identity.
C27_CacheProvenance ==
    /\ app_state.music_brief # None => app_state.emotion_result # None
    /\ app_state.emotion_result # None => emo_src = CachedId(app_state)
    /\ app_state.emotion_result = None => emo_src = None
    /\ app_state.music_brief # None =>
            /\ brief_src.emotion = app_state.emotion_result
            /\ brief_src.input = CachedId(app_state)
    /\ app_state.music_brief = None => brief_src = None

\* Emotion and brief are cached for an image, the brief composed by a later
\* invocation than the one that analysed the emotion.
C27_Witness ==
    /\ Acted(last)
    /\ app_state.current_mode = "image"
    /\ app_state.music_brief # None
    /\ Called(last, "compose") /\ ~Called(last, "emotion")
    /\ brief_src.emotion = app_state.emotion_result

\* C28: an action that rejects its input as empty changes neither the cached
\* input identity, nor the mode, nor the cached EmotionResult, nor the cached
\* MusicBrief.
C28_RejectionLeavesCache ==
    [][ (Acted(last') /\ last'.status = "empty")
        => /\ app_state' = app_state
           /\ emo_src' = emo_src
           /\ brief_src' = brief_src
           /\ last'.cleared = "no" ]_vars

\* An empty input was rejected while an emotion and a brief were cached.
C28_Witness ==
    /\ Acted(last)
    /\ last.status = "empty"
    /\ app_state.emotion_result # None
    /\ app_state.music_brief # None
    /\ StoryCached(app_state)

SynthesisFailures ==
    {"AssertionError: token", "AssertionError: duration",
     "Replicate failed", "Unexpected replicate output type"}

\* C29 (as stated): whenever generate_full_music fails in the synthesis step,
\* in text mode as in image mode, the EmotionResult and the MusicBrief of
\* that invocation are cached for the current input.
C29_ResultsSurviveSynthesisFailure ==
    (/\ Acted(last) /\ last.action = "generate_full_music"
     /\ Called(last, "synth")
     /\ last.exc \in SynthesisFailures)
    => /\ app_state.emotion_result # None
       /\ app_state.music_brief # None
       /\ emo_src = InputId(last)
       /\ brief_src.input = InputId(last)

(***************************************************************************)
(* Properties of overlapping invocations (SpecRace)                        *)
(***************************************************************************)
\* The cached EmotionResult was analysed from another input than the cached
\* story.
CacheMismatch ==
    /\ app_state.emotion_result # None
    /\ emo_src # [text |-> app_state.user_story]

\* The last invocation returned, as a cache hit, an emotion analysed from
\* another input than its own.
ServedForOtherInput ==
    /\ last # None
    /\ last.status = "reuse"
    /\ last.emotion_md # None
    /\ race.ret_src # FromText(last.user_story)

\* C22: the handlers share one cache without isolation: a cached
\* EmotionResult analysed from another input than the cached story, and a
\* cache hit that serves it for that other input, are reachable, and only
\* in runs where an invocation began while another was in progress.
C22_NoSessionIsolation ==
    /\ CacheMismatch => race.overlapped
    /\ ServedForOtherInput => race.overlapped

\* Two invocations with different stories overlapped and the later one was
\* served, as a cache hit for its story, the emotion analysed from the other.
C22_Witness ==
    /\ ServedForOtherInput
    /\ race.overlapped
    /\ race.ret_src # None
    /\ app_state.user_story = _norm(last.user_story)
    /\ CacheMismatch

(***************************************************************************)
(* Properties of the synthesizer (SpecSynth, SpecSynthFair)                *)
(***************************************************************************)
SynTokenAbsent == env.REPLICATE_API_TOKEN \in {NoneStr, ""}
SynDurationOutside == syn.duration < 120 \/ syn.duration > 180

\* C11: generate_with_replicate_strict fails on its assertion, with no job
\* created and no file written, whenever the token is absent or the duration
\* is outside [120,180]; a job is created only with a duration inside
\* [120,180].
C11_SynthPreconditions ==
    /\ ((SynTokenAbsent \/ SynDurationOutside) /\ syn.pc # "assert") =>
            /\ syn.pc = "raised"
            /\ syn.exc \in {"AssertionError: token", "AssertionError: duration"}
            /\ syn.jobs = 0 /\ syn.files = 0 /\ syn.result = NoneStr
    /\ syn.jobs > 0 =>
            /\ syn.duration \in 120..180
            /\ syn.payload.duration \in 120..180
            /\ ~SynTokenAbsent

\* The call failed on the duration assertion alone: token present, 119 s.
C11_Witness ==
    /\ syn.pc = "raised"
    /\ syn.exc = "AssertionError: duration"
    /\ syn.duration = 119
    /\ ~SynTokenAbsent
    /\ syn.jobs = 0 /\ syn.files = 0

SynRest == ~have_replicate

\* C18: in the REST path, after the job is created the status is polled
\* again while it is none of succeeded/failed/canceled; the output is
\* returned, and saved, only when the last status observed is succeeded; on
\* failed or canceled the function raises; one job is created at most.
C18_PollingSafety ==
    [][ SynRest =>
        /\ (syn.pc = "loop" /\ syn.pred \in {"starting", "processing"}) =>
                \/ syn'.pc = "loop"
                \/ syn'.pc = "raised" /\ syn'.exc = "HTTPError"
        /\ (syn.pc = "loop" /\ syn.pred \in {"starting", "processing"}
                /\ syn'.pred # syn.pred) => syn'.polls > 0
        /\ (syn.pc = "loop" /\ syn.pred \in {"failed", "canceled"}) =>
                /\ syn'.pc = "raised"
                /\ syn'.exc = "Replicate failed"
        /\ syn'.pc \in {"save", "returned"} => syn'.pred = "succeeded"
        /\ (syn'.files > 0 \/ syn'.result # NoneStr) => syn'.pred = "succeeded"
        /\ syn'.jobs <= 1 ]_vars

\* The job was seen running, then canceled, and the function raised without
\* saving anything.
C18_Witness ==
    /\ SynRest
    /\ syn.pc = "raised"
    /\ syn.exc = "Replicate failed"
    /\ syn.pred = "canceled"
    /\ syn.polls > 0
    /\ syn.files = 0

SynDone == syn.pc \in {"returned", "raised"}

\* C19: with the program and the hosted job both advancing and HTTP calls
\* returning, the call eventually returns or raises; the loop itself has no
\* way out while the status observed stays non-terminal: it polls again, or
\* an HTTP error ends it.
C19_PollingTermination ==
    /\ <>SynDone
    /\ [][ (syn.pc = "loop" /\ syn.pred \in {"starting", "processing"}
                /\ syn'.pred \in {"starting", "processing"}) =>
            \/ syn'.pc = "loop"
            \/ syn'.pc = "raised" /\ syn'.exc = "HTTPError" ]_vars

\* Still polling a job that is not terminal after every counted poll.
C19_Witness ==
    /\ syn.pc = "loop"
    /\ syn.pred \in {"starting", "processing"}
    /\ syn.polls = MaxPolls

UnexpectedShapes == {"dict_other", "empty_list", "other"}

\* C25 (as stated): for every output whose first element is neither a
\* readable stream, nor a URL string, nor a dict carrying a URL string, an
\* empty output list included, _save_first_output_to_file raises the
\* 'Unexpected replicate output type' error and writes no file.
C25_UnexpectedOutputRaises ==
    (syn.out \in UnexpectedShapes /\ syn.pc \in {"returned", "raised"}) =>
        /\ syn.pc = "raised"
        /\ syn.exc = "Unexpected replicate output type"
        /\ syn.files = 0

(***************************************************************************)
(* Properties of the keyword prototype (SpecKeyword)                       *)
(***************************************************************************)
\* C30 (as stated): whatever calls came before on the same MusicGenerator,
\* a call returns what it returns on a generator fresh from its
\* constructor; 'energy boost' adds 'upbeat_drums' to the instruments of
\* that call's result only.
C30_HistoryIndependence ==
    gen.call # None =>
        gen.out = process_text_and_generate_music(InstrumentsInit, gen.call).out

====
